---- MODULE Spec2Model ----
(***************************************************************************)
(* Model of src/main.py: the two request handlers of the App Analyzer API  *)
(* (POST /analyze-app, POST /analyze-ios-app) and their helpers.           *)
(*                                                                         *)
(* Python strings that the code inspects (URLs, app ids, titles and        *)
(* descriptions of search results) are sequences of one-character strings, *)
(* so that re.search, str(), .lower() and the `in` substring test are      *)
(* computed rather than assumed.                                           *)
(***************************************************************************)
EXTENDS Integers, Sequences, FiniteSets, TLC

VARIABLES
    pc,                     \* position of the handler
    endpoint,               \* "android" | "ios" | "parser"
    request,                \* [name, url]: the request body
    status,                 \* 0 while running, then the HTTP status
    response,               \* AppAnalysisResponse, or EmptyDict
    calls,                  \* trace of the calls to external collaborators
    package_name,           \* analyze_app: result of extract_package_name
    app_id,                 \* analyze_ios_app: result of extract_app_id
    target_app,             \* target app record
    app_data,               \* analyze_ios_app: result of get_app_store_data
    reviews,                \* analyze_ios_app: retained reviews
    similar_apps,           \* analyze_app: search hits; search_similar_apps: accepted list
    detailed_similar_apps,  \* analyze_app: collected detail records
    idx,                    \* analyze_app: number of hits already handled
    seen_app_ids,           \* search_similar_apps: set of accepted ids
    qi,                     \* search_similar_apps: number of terms already taken
    results,                \* search_similar_apps: data['results'] of the current query
    ri                      \* search_similar_apps: number of results already handled

vars == <<pc, endpoint, request, status, response, calls, package_name, app_id,
          target_app, app_data, reviews, similar_apps, detailed_similar_apps,
          idx, seen_app_ids, qi, results, ri>>

(***************************************************************************)
(* Bounds of the model                                                     *)
(***************************************************************************)
MaxUrlLen == 6      \* longest URL string of the parser specification
MaxHits == 11       \* most hits the Android search returns
MaxReviews == 11    \* most reviews the review scraper returns
MaxResults == 7     \* most results one iOS search query returns

UrlChars == {"i", "d", "=", "&", "a"}

(***************************************************************************)
(* Strings and dictionaries                                                *)
(***************************************************************************)
EmptyDict == [k \in {} |-> 0]

\* dict.get(key, default)
Get(d, k, default) == IF k \in DOMAIN d THEN d[k] ELSE default

Min(S) == CHOOSE x \in S : \A y \in S : x <= y

\* the literal lit occurs in s at position p
LitAt(s, p, lit) ==
    /\ p + Len(lit) - 1 <= Len(s)
    /\ \A j \in 1..Len(lit) : s[p + j - 1] = lit[j]

\* Python's `k in s` on strings
Contains(s, k) == \E p \in 1..(Len(s) + 1) : LitAt(s, p, k)

Digits == {"0", "1", "2", "3", "4", "5", "6", "7", "8", "9"}
DigitChar == <<"0", "1", "2", "3", "4", "5", "6", "7", "8", "9">>

RECURSIVE IntToStr(_)
\* str(n) for a non-negative int
IntToStr(n) ==
    IF n < 10 THEN <<DigitChar[n + 1]>>
    ELSE IntToStr(n \div 10) \o <<DigitChar[(n % 10) + 1]>>

UpperToLower ==
    [c \in {"A", "B", "E", "K", "L", "M", "N", "O", "T", "W", "Y"} |->
        CASE c = "A" -> "a" [] c = "B" -> "b" [] c = "E" -> "e"
          [] c = "K" -> "k" [] c = "L" -> "l" [] c = "M" -> "m"
          [] c = "N" -> "n" [] c = "O" -> "o" [] c = "T" -> "t"
          [] c = "W" -> "w" [] c = "Y" -> "y"]

LowerChar(c) == IF c \in DOMAIN UpperToLower THEN UpperToLower[c] ELSE c

\* str.lower()
Lower(s) == [i \in 1..Len(s) |-> LowerChar(s[i])]

(***************************************************************************)
(* re.search: leftmost match, greedy group                                 *)
(***************************************************************************)
RECURSIVE RunEnd(_, _, _)
\* last position of the longest run of characters outside Excluded that
\* starts at position p (p - 1 when the run is empty)
RunEnd(s, p, Excluded) ==
    IF p > Len(s) \/ s[p] \in Excluded THEN p - 1
    ELSE RunEnd(s, p + 1, Excluded)

RECURSIVE DigitRunEnd(_, _)
DigitRunEnd(s, p) ==
    IF p > Len(s) \/ s[p] \notin Digits THEN p - 1
    ELSE DigitRunEnd(s, p + 1)

HTTPException(code, detail) == [raised |-> TRUE, status_code |-> code, detail |-> detail]
Returned(v) == [raised |-> FALSE, value |-> v]

\* pattern id=([^&]*): the group may be empty
extract_package_name_star(url) ==
    LET starts == {p \in 1..Len(url) : LitAt(url, p, <<"i", "d", "=">>)}
    IN  IF starts = {}
        THEN HTTPException(400, "Invalid Google Play Store URL")
        ELSE LET p == Min(starts)
             IN  Returned(SubSeq(url, p + 3, RunEnd(url, p + 3, {"&"})))

\* pattern id=([^&]+)
extract_package_name(url) ==
    LET starts == {p \in 1..Len(url) :
                      /\ LitAt(url, p, <<"i", "d", "=">>)
                      /\ RunEnd(url, p + 3, {"&"}) >= p + 3}
    IN  IF starts = {}
        THEN HTTPException(400, "Invalid Google Play Store URL")
        ELSE LET p == Min(starts)
             IN  Returned(SubSeq(url, p + 3, RunEnd(url, p + 3, {"&"})))

\* pattern /id(\d+)
extract_app_id(url) ==
    LET starts == {p \in 1..Len(url) :
                      /\ LitAt(url, p, <<"/", "i", "d">>)
                      /\ DigitRunEnd(url, p + 3) >= p + 3}
    IN  IF starts = {}
        THEN HTTPException(400, "Invalid App Store URL")
        ELSE LET p == Min(starts)
             IN  Returned(SubSeq(url, p + 3, DigitRunEnd(url, p + 3)))

(***************************************************************************)
(* Values of decoded JSON and of the collaborators' answers                *)
(***************************************************************************)
JStr(s) == [t |-> "str", v |-> s]
JNum(n) == [t |-> "num", v |-> n]
JNull == [t |-> "null"]
JDict(d) == [t |-> "dict", v |-> d]

\* str(x)
Str(x) ==
    CASE x.t = "str" -> x.v
      [] x.t = "num" -> IntToStr(x.v)
      [] x.t = "null" -> <<"N", "o", "n", "e">>

Call(fn, arg, ok) == [fn |-> fn, arg |-> arg, ok |-> ok]

n_hits == 10
ReviewCap == 10
SimilarCap == 10

\* status of the HTTPException raised by the handlers' outer except clause
OuterExcept(exc) == 500

(***************************************************************************)
(* The requests the model sends                                            *)
(***************************************************************************)
AndroidUrls ==
    { <<"i", "d", "=", "a">>,
      <<"a", "i", "d", "=", "d", "&", "i", "d", "=", "a">>,
      <<"a", "&", "i", "d", "=">>,
      <<"a">> }

IosUrls ==
    { <<"/", "i", "d", "1", "2">>,
      <<"a", "/", "i", "d", "0", "1", "2", "&">>,
      <<"/", "i", "d", "a">>,
      <<"i", "d", "1", "2">> }

Names == {"Chase", "Venmo"}

\* the locals of a handler before it runs
Idle ==
    /\ status = 0
    /\ response = EmptyDict
    /\ calls = <<>>
    /\ package_name = <<>>
    /\ app_id = <<>>
    /\ target_app = EmptyDict
    /\ app_data = EmptyDict
    /\ reviews = <<>>
    /\ similar_apps = <<>>
    /\ detailed_similar_apps = <<>>
    /\ idx = 0
    /\ seen_app_ids = {}
    /\ qi = 0
    /\ results = <<>>
    /\ ri = 0

Init ==
    /\ pc = "start"
    /\ endpoint \in {"android", "ios"}
    /\ request \in [name : Names,
                    url : IF endpoint = "android" THEN AndroidUrls ELSE IosUrls]
    /\ Idle

(***************************************************************************)
(* POST /analyze-app                                                       *)
(***************************************************************************)
UNCHANGED_ios == UNCHANGED <<app_id, app_data, reviews, seen_app_ids, qi, results, ri>>

\* package_name = extract_package_name(request.url)
AnalyzeAppExtract ==
    /\ endpoint = "android"
    /\ pc = "start"
    /\ LET r == extract_package_name(request.url)
       IN  IF r.raised
           THEN /\ status' = OuterExcept(r)
                /\ pc' = "done"
                /\ UNCHANGED package_name
           ELSE /\ package_name' = r.value
                /\ pc' = "fetch_target"
                /\ UNCHANGED status
    /\ UNCHANGED <<endpoint, request, response, calls, target_app, similar_apps,
                   detailed_similar_apps, idx>>
    /\ UNCHANGED_ios

\* target_app = gps_app(package_name, ...)
AnalyzeAppFetchTarget ==
    /\ endpoint = "android"
    /\ pc = "fetch_target"
    /\ \E ok \in BOOLEAN :
        /\ calls' = Append(calls, Call("gps_app", package_name, ok))
        /\ IF ok
           THEN /\ target_app' = [appId |-> package_name]
                /\ pc' = "search"
                /\ UNCHANGED status
           ELSE /\ status' = OuterExcept("gps_app")
                /\ pc' = "done"
                /\ UNCHANGED target_app
    /\ UNCHANGED <<endpoint, request, response, package_name, similar_apps,
                   detailed_similar_apps, idx>>
    /\ UNCHANGED_ios

\* the hits of one search: n hits in ranking order
SearchHits(n) == [i \in 1..n |-> [appId |-> IntToStr(i)]]

\* similar_apps = gps_search(request.android_app_name, ..., n_hits=10)
AnalyzeAppSearch ==
    /\ endpoint = "android"
    /\ pc = "search"
    /\ \/ /\ calls' = Append(calls, Call("gps_search", <<request.name, n_hits>>, FALSE))
          /\ status' = OuterExcept("gps_search")
          /\ pc' = "done"
          /\ UNCHANGED <<similar_apps, detailed_similar_apps, idx>>
       \/ \E n \in 0..MaxHits :
          /\ calls' = Append(calls, Call("gps_search", <<request.name, n_hits>>, TRUE))
          /\ similar_apps' = SearchHits(n)
          /\ detailed_similar_apps' = <<>>
          /\ idx' = 0
          /\ pc' = "details"
          /\ UNCHANGED status
    /\ UNCHANGED <<endpoint, request, response, package_name, target_app>>
    /\ UNCHANGED_ios

\* the detail record inserted at the front of the list
CollectDetail_prepend(acc, hit, ok) ==
    IF ok THEN <<[appId |-> hit.appId, detailed |-> TRUE]>> \o acc ELSE acc

\* the try/except around one detail lookup: the list after the lookup of hit
CollectDetail(acc, hit, ok) ==
    IF ok THEN Append(acc, [appId |-> hit.appId, detailed |-> TRUE]) ELSE acc

\* one iteration of `for app_data in similar_apps`
AnalyzeAppDetail ==
    /\ endpoint = "android"
    /\ pc = "details"
    /\ idx < Len(similar_apps)
    /\ \E ok \in BOOLEAN :
        /\ calls' = Append(calls, Call("gps_app", similar_apps[idx + 1].appId, ok))
        /\ detailed_similar_apps' =
              CollectDetail(detailed_similar_apps, similar_apps[idx + 1], ok)
    /\ idx' = idx + 1
    /\ UNCHANGED <<pc, endpoint, request, status, response, package_name,
                   target_app, similar_apps>>
    /\ UNCHANGED_ios

\* return AppAnalysisResponse(target_app, detailed_similar_apps)
AnalyzeAppRespond ==
    /\ endpoint = "android"
    /\ pc = "details"
    /\ idx = Len(similar_apps)
    /\ response' = [target_app |-> target_app, similar_apps |-> detailed_similar_apps]
    /\ status' = 200
    /\ pc' = "done"
    /\ UNCHANGED <<endpoint, request, calls, package_name, target_app,
                   similar_apps, detailed_similar_apps, idx>>
    /\ UNCHANGED_ios

NextAndroid ==
    \/ AnalyzeAppExtract
    \/ AnalyzeAppFetchTarget
    \/ AnalyzeAppSearch
    \/ AnalyzeAppDetail
    \/ AnalyzeAppRespond

(***************************************************************************)
(* get_app_store_data                                                      *)
(***************************************************************************)
\* the elements a storefront page may hold, with their stripped text
FullPage == [h1 |-> "Chase Mobile", h2 |-> "JPMorgan Chase",
             section__description |-> "Bank securely", price |-> "Free"]
NoTitlePage == [h2 |-> "JPMorgan Chase"]
Pages == {FullPage, NoTitlePage}

StoreUrl(id) == <<"https://apps.apple.com/us/app/id", id>>

\* fetched: [raised |-> TRUE] when requests.get, raise_for_status or the
\* parse raises, else [raised |-> FALSE, value |-> page]
get_app_store_data(id, fetched) ==
    IF fetched.raised
    THEN EmptyDict
    ELSE LET soup == fetched.value
         IN  [title |-> Get(soup, "h1", ""),
              developer |-> Get(soup, "h2", ""),
              description |-> Get(soup, "section__description", ""),
              rating |-> Get(soup, "we-rating-count", "0"),
              price |-> Get(soup, "price", "Free"),
              url |-> StoreUrl(id)]

(***************************************************************************)
(* search_similar_apps                                                     *)
(***************************************************************************)
search_terms(app_name) ==
    << <<app_name, " mobile wallet">>,
       <<app_name, " payment">>,
       <<app_name, " financial">>,
       <<"mobile wallet payment">>,
       <<"digital wallet payment">> >>

keywords ==
    { <<"w", "a", "l", "l", "e", "t">>,
      <<"p", "a", "y", "m", "e", "n", "t">>,
      <<"b", "a", "n", "k">>,
      <<"m", "o", "n", "e", "y">>,
      <<"t", "r", "a", "n", "s", "f", "e", "r">>,
      <<"f", "i", "n", "a", "n", "c", "i", "a", "l">> }

\* any(keyword in title.lower() or description.lower() ...): the second
\* operand tested for truth instead of containment
Relevant_truthy(title, description) ==
    \E keyword \in keywords :
        \/ Contains(Lower(title), keyword)
        \/ Lower(description) # <<>>

\* any(keyword in title.lower() or keyword in description.lower() ...)
Relevant(title, description) ==
    \E keyword \in keywords :
        \/ Contains(Lower(title), keyword)
        \/ Contains(Lower(description), keyword)

\* the record appended for an accepted result
SimilarRecord(id, app) ==
    [appId |-> id,
     title |-> Get(app, "trackName", JStr(<<>>)),
     developer |-> Get(app, "sellerName", JStr(<<>>)),
     description |-> Get(app, "description", JStr(<<>>)),
     price |-> Get(app, "formattedPrice", JStr(<<"F", "r", "e", "e">>)),
     rating |-> Str(Get(app, "averageUserRating", JStr(<<"0">>))),
     rating_count |-> Str(Get(app, "userRatingCount", JStr(<<"0">>))),
     url |-> Get(app, "trackViewUrl", JStr(<<>>)),
     category |-> Get(app, "primaryGenreName", JStr(<<>>))]

\* the test without its length bound
Eligible_uncapped(id, acc, seen, exclude_app_id) ==
    /\ id # <<>>
    /\ id # exclude_app_id
    /\ id \notin seen

\* the test without its look-up in the seen set
Eligible_unseen(id, acc, seen, exclude_app_id) ==
    /\ id # <<>>
    /\ id # exclude_app_id
    /\ Len(acc) < SimilarCap

\* the test that guards the relevance check of one result
Eligible(id, acc, seen, exclude_app_id) ==
    /\ id # <<>>
    /\ id # exclude_app_id
    /\ id \notin seen
    /\ Len(acc) < SimilarCap

\* body of `for app in data['results']` for one result: the accepted list and
\* the seen set after it.  An exception raised inside the try (app is not a
\* dict, trackName or description is not a string) leaves both as they are.
ProcessResult(item, acc, seen, exclude_app_id) ==
    LET same == [similar_apps |-> acc, seen_app_ids |-> seen]
    IN  IF item.t # "dict" THEN same
        ELSE
        LET app == item.v
            id == Str(Get(app, "trackId", JStr(<<>>)))
        IN  IF Eligible(id, acc, seen, exclude_app_id)
            THEN LET title == Get(app, "trackName", JStr(<<>>))
                     description == Get(app, "description", JStr(<<>>))
                 IN  IF title.t # "str" \/ description.t # "str" THEN same
                     ELSE IF Relevant(Lower(title.v), Lower(description.v))
                     THEN [similar_apps |-> Append(acc, SimilarRecord(id, app)),
                           seen_app_ids |-> seen \cup {id}]
                     ELSE same
            ELSE same

\* what the search endpoint knows: the i-th entry of its ranking
Bank == <<"B", "a", "n", "k">>
Game == <<"g", "a", "m", "e">>
Fun == <<"f", "u", "n">>
Money == <<"m", "o", "n", "e", "y">>
EWallet == <<"e", "W", "A", "L", "L", "E", "T">>

App(id, name, desc) ==
    JDict([trackId |-> JNum(id), trackName |-> JStr(name), description |-> JStr(desc)])

CatalogueHead ==
    << App(12, Bank, <<>>),
       App(1, Bank, Fun),
       App(2, Game, Money),
       App(3, Game, Fun),
       JNull,
       App(1, Bank, Fun),
       JDict([trackName |-> JStr(Bank)]),
       JDict([trackId |-> JNum(4), trackName |-> JNull, description |-> JStr(Money)]),
       JDict([trackId |-> JNum(5), trackName |-> JStr(EWallet), sellerName |-> JStr(Fun),
              averageUserRating |-> JNum(4)]) >>

Catalogue(i) ==
    IF i <= Len(CatalogueHead) THEN CatalogueHead[i] ELSE App(i, Bank, <<>>)

\* rank of the first result of the page served to the q-th query
PageOffset == <<1, 4, 8, 12, 1>>

Page(q, n) == [i \in 1..n |-> Catalogue(PageOffset[q] + i - 1)]

PageLengths == {1, MaxResults \div 2, MaxResults}

(***************************************************************************)
(* POST /analyze-ios-app                                                   *)
(***************************************************************************)
UNCHANGED_android == UNCHANGED <<package_name, detailed_similar_apps, idx>>

\* app_id = extract_app_id(request.url)
AnalyzeIosExtract ==
    /\ endpoint = "ios"
    /\ pc = "start"
    /\ LET r == extract_app_id(request.url)
       IN  IF r.raised
           THEN /\ status' = OuterExcept(r)
                /\ pc' = "done"
                /\ UNCHANGED app_id
           ELSE /\ app_id' = r.value
                /\ pc' = "storefront"
                /\ UNCHANGED status
    /\ UNCHANGED <<endpoint, request, response, calls, target_app, app_data,
                   reviews, similar_apps, seen_app_ids, qi, results, ri>>
    /\ UNCHANGED_android

\* app_data = get_app_store_data(app_id)
AnalyzeIosStorefront ==
    /\ endpoint = "ios"
    /\ pc = "storefront"
    /\ \E fetched \in {[raised |-> TRUE]} \cup {Returned(page) : page \in Pages} :
        /\ calls' = Append(calls, Call("storefront", app_id, ~fetched.raised))
        /\ app_data' = get_app_store_data(app_id, fetched)
    /\ pc' = "scraper"
    /\ UNCHANGED <<endpoint, request, status, response, app_id, target_app,
                   reviews, similar_apps, seen_app_ids, qi, results, ri>>
    /\ UNCHANGED_android

\* target_app_scraper = AppStore(...); an exception here reaches the inner
\* except clause, whose HTTPException(500) reaches the outer one
AnalyzeIosScraper ==
    /\ endpoint = "ios"
    /\ pc = "scraper"
    /\ \E ok \in BOOLEAN :
        /\ calls' = Append(calls, Call("AppStore", app_id, ok))
        /\ IF ok
           THEN /\ pc' = "reviews"
                /\ UNCHANGED status
           ELSE /\ status' = OuterExcept(HTTPException(500, "Error scraping target app"))
                /\ pc' = "done"
    /\ UNCHANGED <<endpoint, request, response, app_id, target_app, app_data,
                   reviews, similar_apps, seen_app_ids, qi, results, ri>>
    /\ UNCHANGED_android

\* the reviews kept, without the [:10] slice
RetainedReviews_uncapped(fetched) == fetched

\* the reviews kept of those the scraper holds
RetainedReviews(fetched) ==
    SubSeq(fetched, 1, IF Len(fetched) < ReviewCap THEN Len(fetched) ELSE ReviewCap)

\* target_app of analyze_ios_app
CombineData(id, data, name, revs) ==
    [appId |-> id,
     title |-> Get(data, "title", name),
     description |-> Get(data, "description", ""),
     developer |-> Get(data, "developer", ""),
     price |-> Get(data, "price", ""),
     rating |-> Get(data, "rating", ""),
     url |-> Get(data, "url", ""),
     reviews |-> revs]

\* target_app_scraper.review() with its try/except, then the target_app dict
\* and the entry into search_similar_apps
AnalyzeIosReviews ==
    /\ endpoint = "ios"
    /\ pc = "reviews"
    /\ \E fetched \in {[raised |-> TRUE]}
                      \cup {Returned([i \in 1..n |-> i]) : n \in 0..MaxReviews} :
        /\ calls' = Append(calls, Call("review", app_id, ~fetched.raised))
        /\ reviews' = IF fetched.raised THEN <<>> ELSE RetainedReviews(fetched.value)
        /\ target_app' = CombineData(app_id, app_data, request.name, reviews')
    /\ similar_apps' = <<>>
    /\ seen_app_ids' = {}
    /\ qi' = 0
    /\ pc' = "query"
    /\ UNCHANGED <<endpoint, request, status, response, app_id, app_data, results, ri>>
    /\ UNCHANGED_android

\* the loop over the terms without its break
LoopContinues_nobreak(taken, acc, terms) == taken < Len(terms)

\* the loop over the terms goes on: a term is left and the break is not taken
LoopContinues(taken, acc, terms) ==
    /\ taken < Len(terms)
    /\ Len(acc) < SimilarCap

\* head of `for search_term in search_terms`: the break test, the request and
\* the decoding of its answer
SearchQuery ==
    /\ endpoint = "ios"
    /\ pc = "query"
    /\ LoopContinues(qi, similar_apps, search_terms(request.name))
    /\ LET term == search_terms(request.name)[qi + 1]
       IN  \/ /\ calls' = Append(calls, Call("search", term, FALSE))
              /\ pc' = "respond"
              /\ UNCHANGED <<qi, results, ri>>
           \/ /\ calls' = Append(calls, Call("search", term, TRUE))
              /\ qi' = qi + 1
              /\ UNCHANGED <<pc, results, ri>>
           \/ \E n \in PageLengths :
              /\ calls' = Append(calls, Call("search", term, TRUE))
              /\ qi' = qi + 1
              /\ results' = Page(qi + 1, n)
              /\ ri' = 0
              /\ pc' = IF Len(results') = 0 THEN "query" ELSE "result"
    /\ UNCHANGED <<endpoint, request, status, response, app_id, target_app,
                   app_data, reviews, similar_apps, seen_app_ids>>
    /\ UNCHANGED_android

\* one iteration of `for app in data['results']`
SearchResult ==
    /\ endpoint = "ios"
    /\ pc = "result"
    /\ ri < Len(results)
    /\ LET after == ProcessResult(results[ri + 1], similar_apps, seen_app_ids, app_id)
       IN  /\ similar_apps' = after.similar_apps
           /\ seen_app_ids' = after.seen_app_ids
    /\ ri' = ri + 1
    /\ pc' = IF ri + 1 = Len(results) THEN "query" ELSE "result"
    /\ UNCHANGED <<endpoint, request, status, response, calls, app_id,
                   target_app, app_data, reviews, qi, results>>
    /\ UNCHANGED_android

\* the loop over the terms ends: exhausted, or the break
SearchLoopExit ==
    /\ endpoint = "ios"
    /\ pc = "query"
    /\ ~LoopContinues(qi, similar_apps, search_terms(request.name))
    /\ pc' = "respond"
    /\ UNCHANGED <<endpoint, request, status, response, calls, app_id, target_app,
                   app_data, reviews, similar_apps, seen_app_ids, qi, results, ri>>
    /\ UNCHANGED_android

\* return similar_apps; return AppAnalysisResponse(target_app, similar_apps)
AnalyzeIosRespond ==
    /\ endpoint = "ios"
    /\ pc = "respond"
    /\ response' = [target_app |-> target_app, similar_apps |-> similar_apps]
    /\ status' = 200
    /\ pc' = "done"
    /\ UNCHANGED <<endpoint, request, calls, app_id, target_app, app_data,
                   reviews, similar_apps, seen_app_ids, qi, results, ri>>
    /\ UNCHANGED_android

NextIos ==
    \/ AnalyzeIosExtract
    \/ AnalyzeIosStorefront
    \/ AnalyzeIosScraper
    \/ AnalyzeIosReviews
    \/ SearchQuery
    \/ SearchResult
    \/ SearchLoopExit
    \/ AnalyzeIosRespond

Next == NextAndroid \/ NextIos

Spec == Init /\ [][Next]_vars

(***************************************************************************)
(* Specification of the Android URL parser over all bounded strings        *)
(***************************************************************************)
BoundedUrls == UNION {[1..n -> UrlChars] : n \in 0..MaxUrlLen}

InitUrl ==
    /\ pc = "parse"
    /\ endpoint = "parser"
    /\ request \in [name : {"Chase"}, url : BoundedUrls]
    /\ Idle

\* one call of extract_package_name(request.url)
ParsePackageName ==
    /\ endpoint = "parser"
    /\ pc = "parse"
    /\ LET r == extract_package_name(request.url)
       IN  IF r.raised
           THEN /\ status' = r.status_code
                /\ UNCHANGED package_name
           ELSE /\ package_name' = r.value
                /\ UNCHANGED status
    /\ pc' = "parsed"
    /\ UNCHANGED <<endpoint, request, response, calls, app_id, target_app,
                   app_data, reviews, similar_apps, detailed_similar_apps,
                   idx, seen_app_ids, qi, results, ri>>

NextUrl == ParsePackageName

SpecUrl == InitUrl /\ [][NextUrl]_vars

\* positions of url where the literal id= occurs
IdOccurrences(url) == {p \in 1..Len(url) : LitAt(url, p, <<"i", "d", "=">>)}

\* the value X of the occurrence at p: what follows id= up to the next & or
\* the end of the string
ValueAt(url, p) ==
    LET e == CHOOSE e \in (p + 2)..Len(url) :
                 /\ \A j \in (p + 3)..e : url[j] # "&"
                 /\ (e = Len(url) \/ url[e + 1] = "&")
    IN  SubSeq(url, p + 3, e)

Parsed == endpoint = "parser" /\ pc = "parsed"
ParserRaised400 == status = 400
ParserReturned(x) == status = 0 /\ package_name = x

Done == pc = "done"
Ios == endpoint = "ios"
Android == endpoint = "android"

\* the calls of the trace made to fn
CallsTo(fn) == SelectSeq(calls, LAMBDA c : c.fn = fn)

\* url holds id= followed by at least one character other than &
HasAndroidId(url) ==
    \E p \in 1..Len(url) :
        /\ LitAt(url, p, <<"i", "d", "=">>)
        /\ p + 3 <= Len(url)
        /\ url[p + 3] # "&"

\* url holds /id followed by at least one digit
HasIosId(url) ==
    \E p \in 1..Len(url) :
        /\ LitAt(url, p, <<"/", "i", "d">>)
        /\ p + 3 <= Len(url)
        /\ url[p + 3] \in Digits

NoIdentifier ==
    \/ Android /\ ~HasAndroidId(request.url)
    \/ Ios /\ ~HasIosId(request.url)

\* C1: on both endpoints a request whose url holds no extractable identifier
\* is answered with status 400 and no external call is made for it.
C1_InvalidUrlAnswered400 ==
    (Done /\ NoIdentifier) => (status = 400 /\ calls = <<>>)

ResultId(item) ==
    IF item.t = "dict" THEN Str(Get(item.v, "trackId", JStr(<<>>))) ELSE <<>>

AppIds(apps) == [i \in 1..Len(apps) |-> apps[i].appId]
NoDuplicates(seq) == \A i, j \in 1..Len(seq) : seq[i] = seq[j] => i = j

\* C3: at every point of search_similar_apps the accumulated list holds no
\* entry whose appId is exclude_app_id and no two entries with the same appId,
\* and so does the similar_apps of an iOS response.
C3_NoTargetNoDuplicate ==
    Ios =>
        /\ \A i \in 1..Len(similar_apps) : similar_apps[i].appId # app_id
        /\ NoDuplicates(AppIds(similar_apps))
        /\ status = 200 =>
              /\ \A i \in 1..Len(response.similar_apps) :
                     response.similar_apps[i].appId # app_id
              /\ NoDuplicates(AppIds(response.similar_apps))

\* a result of a later query whose id was already accepted has just been
\* skipped, after the target's own entry was met on the first page
C3_Witness ==
    /\ Ios
    /\ app_id = <<"1", "2">>
    /\ qi >= 2
    /\ ri >= 1
    /\ ResultId(results[ri]) \in seen_app_ids
    /\ similar_apps[Len(similar_apps)].appId # ResultId(results[ri])

SameLetter(a, b) == LowerChar(a) = LowerChar(b)

\* kw occurs in text when the case of the letters is ignored
OccursIgnoringCase(text, kw) ==
    \E p \in 1..Len(text) :
        /\ p + Len(kw) - 1 <= Len(text)
        /\ \A j \in 1..Len(kw) : SameLetter(text[p + j - 1], kw[j])

HasKeyword(entry) ==
    \E kw \in keywords :
        \/ entry.title.t = "str" /\ OccursIgnoringCase(entry.title.v, kw)
        \/ entry.description.t = "str" /\ OccursIgnoringCase(entry.description.v, kw)

\* C4: every entry of the iOS similar_apps list, while it is built and in the
\* response, has one of the six keywords in its title or its description,
\* ignoring case.
C4_OnlyKeywordMatches ==
    Ios =>
        /\ \A i \in 1..Len(similar_apps) : HasKeyword(similar_apps[i])
        /\ status = 200 =>
              \A i \in 1..Len(response.similar_apps) : HasKeyword(response.similar_apps[i])

\* a response holding a result accepted for its description only and one
\* accepted for an upper-case title, the first page (with its result lacking
\* every keyword) having been processed in full
C4_Witness ==
    /\ Ios
    /\ status = 200
    /\ \E i \in 1..Len(response.similar_apps) : response.similar_apps[i].appId = <<"2">>
    /\ \E i \in 1..Len(response.similar_apps) : response.similar_apps[i].appId = <<"5">>
    /\ \A i \in 1..Len(response.similar_apps) : response.similar_apps[i].appId # <<"3">>

ReviewFailed == \E i \in 1..Len(calls) : calls[i].fn = "review" /\ ~calls[i].ok
ReviewSucceeded == \E i \in 1..Len(calls) : calls[i].fn = "review" /\ calls[i].ok

\* C5: in analyze_ios_app, once review() has failed the reviews are the empty
\* list, the request never ends in an error and its response carries the empty
\* list, whatever the storefront fetch and the search do; once review() has
\* succeeded at most the first 10 reviews are retained.
C5_ReviewFailureAbsorbed ==
    /\ (Ios /\ ReviewFailed) =>
          /\ reviews = <<>>
          /\ target_app.reviews = <<>>
          /\ status \in {0, 200}
          /\ Done => (status = 200 /\ response.target_app.reviews = <<>>)
    /\ (Ios /\ ReviewSucceeded) =>
          /\ Len(reviews) <= 10
          /\ \A i \in 1..Len(reviews) : reviews[i] = i
          /\ target_app.reviews = reviews
          /\ Done => response.target_app.reviews = reviews

\* a finished request whose storefront fetch, review fetch and first search
\* query all failed
C5_Witness ==
    /\ Ios
    /\ Done
    /\ ReviewFailed
    /\ \E i \in 1..Len(calls) : calls[i].fn = "storefront" /\ ~calls[i].ok
    /\ \E i \in 1..Len(calls) : calls[i].fn = "search" /\ ~calls[i].ok
    /\ status = 200

\* the storefront step gave no title: get_app_store_data returned no title
\* key, or an empty title
NoTitleYielded == Get(app_data, "title", "") = ""

\* C6: in analyze_ios_app, whenever the storefront step yields no title the
\* response's target_app.title is the caller's ios_app_name.
C6_TitleFallsBack ==
    (Ios /\ status = 200 /\ NoTitleYielded) =>
        response.target_app.title = request.name

\* C7: a failed search query is absorbed and skipped: the request still ends
\* with 200, and unless 10 candidates were accepted all five queries of the
\* term list are issued.
C7_FailedQuerySkipped ==
    (Ios /\ Done /\ Len(CallsTo("review")) = 1) =>
        /\ status = 200
        /\ Len(response.similar_apps) < 10 => Len(CallsTo("search")) = 5

\* the detail lookups of the trace: the gps_app calls after the search
DetailCalls == SubSeq(calls, 3, Len(calls))

\* C9: in analyze_app, after the target fetch and the search have succeeded,
\* the detail lookups made so far are exactly one per handled hit, in search
\* order; the list collected so far is the subsequence of the hits whose
\* lookup succeeded; no error status arises; and the response carries that
\* list once every hit was handled.
C9_OneLookupPerHitInOrder ==
    (Android /\ (pc = "details" \/ status = 200)) =>
        /\ Len(DetailCalls) = idx
        /\ \A i \in 1..idx :
              DetailCalls[i].fn = "gps_app" /\ DetailCalls[i].arg = similar_apps[i].appId
        /\ AppIds(detailed_similar_apps)
              = [i \in 1..Len(SelectSeq(DetailCalls, LAMBDA c : c.ok)) |->
                    SelectSeq(DetailCalls, LAMBDA c : c.ok)[i].arg]
        /\ status \in {0, 200}
        /\ status = 200 =>
              /\ idx = Len(similar_apps)
              /\ response.similar_apps = detailed_similar_apps

\* a response built from at least three hits of which an early lookup failed
\* and a later one succeeded
C9_Witness ==
    /\ Android
    /\ status = 200
    /\ Len(similar_apps) >= 3
    /\ ~DetailCalls[1].ok
    /\ DetailCalls[2].ok
    /\ ~DetailCalls[3].ok
    /\ Len(response.similar_apps) >= 1

InSearch == Ios /\ pc \in {"query", "result"}

\* C10: in search_similar_apps, once 10 candidates are accepted no further
\* query is issued and no further candidate is accepted; a query is issued
\* only while fewer than 10 candidates are accepted, and the queries issued
\* are the terms of the list in its order.
C10_ShortCircuit ==
    [][InSearch =>
         /\ Len(similar_apps) >= 10 => (calls' = calls /\ similar_apps' = similar_apps)
         /\ calls' # calls => Len(similar_apps) < 10
         /\ \A i \in 1..Len(CallsTo("search"))' :
               CallsTo("search")'[i].arg = search_terms(request.name)[i]]_vars

\* 10 candidates accepted before the fifth query, the last page having held a
\* further acceptable result
C10_Witness ==
    /\ Ios
    /\ Done
    /\ Len(similar_apps) = 10
    /\ Len(CallsTo("search")) < 5
    /\ ResultId(results[Len(results)]) \notin seen_app_ids \cup {app_id, <<>>}
    /\ Get(results[Len(results)].v, "trackName", JNull) = JStr(Bank)

====
